---------------------------- MODULE Spec2Model ----------------------------
(***************************************************************************)
(* The mesh monitor of analyze_mesh.py: identity resolution from log text, *)
(* the per-node visibility sets, and the matrix, stray-peer and status     *)
(* computation of one refresh cycle.                                       *)
(*                                                                         *)
(* Text is a sequence of characters; a character is a one-character string *)
(* ("ESC" stands for the single character \x1b).  The regular expressions  *)
(* of the program are flat concatenations of repeated character classes,   *)
(* and are matched with Python's backtracking order.                       *)
(***************************************************************************)
EXTENDS Integers, Sequences, FiniteSets, TLC

(***************************************************************************)
(* Characters and character classes                                        *)
(***************************************************************************)
LowerSeq ==
    <<"a", "b", "c", "d", "e", "f", "g", "h", "i", "j", "k", "l", "m", "n", "o", "p", "q",
    "r", "s", "t", "u", "v", "w", "x", "y", "z">>

UpperSeq ==
    <<"A", "B", "C", "D", "E", "F", "G", "H", "I", "J", "K", "L", "M", "N", "O", "P", "Q",
    "R", "S", "T", "U", "V", "W", "X", "Y", "Z">>

Range(f) == {f[i] : i \in DOMAIN f}

LowerSet == Range(LowerSeq)

UpperSet == Range(UpperSeq)

Digits == {"0", "1", "2", "3", "4", "5", "6", "7", "8", "9"}

\* [a-zA-Z0-9]
Alnum == LowerSet \cup UpperSet \cup Digits

\* [1-9A-HJ-NP-Za-km-z]
Base58 == (Digits \ {"0"}) \cup (UpperSet \ {"I", "O"}) \cup (LowerSet \ {"l"})

\* \s
Space == {" ", "\t", "\n", "\r", "\f"}

\* the other case of a letter (re.I), the character itself otherwise
SwapCase(c) ==
    IF c \in LowerSet THEN UpperSeq[CHOOSE i \in 1..26 : LowerSeq[i] = c]
    ELSE IF c \in UpperSet THEN LowerSeq[CHOOSE i \in 1..26 : UpperSeq[i] = c]
    ELSE c

SetMin(S) == CHOOSE x \in S : \A y \in S : x <= y

SetMax(S) == CHOOSE x \in S : \A y \in S : x >= y

(***************************************************************************)
(* Regular expressions.  An item is a character class with a repetition:   *)
(* in/neg give the class, min the least count, many whether the count is   *)
(* unbounded (otherwise at most 1), lazy whether fewer is preferred.       *)
(***************************************************************************)
One(S) == [in |-> S, neg |-> FALSE, min |-> 1, many |-> FALSE, lazy |-> FALSE]

Opt(S) == [in |-> S, neg |-> FALSE, min |-> 0, many |-> FALSE, lazy |-> FALSE]

Star(S) == [in |-> S, neg |-> FALSE, min |-> 0, many |-> TRUE, lazy |-> FALSE]

AtLeast(S, n) == [in |-> S, neg |-> FALSE, min |-> n, many |-> TRUE, lazy |-> FALSE]

\* .* and .*? ("." is any character but a newline)
DotStar == [in |-> {"\n"}, neg |-> TRUE, min |-> 0, many |-> TRUE, lazy |-> FALSE]

DotStarLazy == [in |-> {"\n"}, neg |-> TRUE, min |-> 0, many |-> TRUE, lazy |-> TRUE]

Lit(w) == [i \in 1..Len(w) |-> One({w[i]})]

\* does character c belong to the class of item it (ic: re.I)
Matches(c, it, ic) ==
    IF it.neg THEN c \notin it.in
    ELSE c \in it.in \/ (ic /\ SwapCase(c) \in it.in)

\* the most repetitions item it can take at position i of s
MaxCount(s, i, it, ic) ==
    IF it.many
    THEN LET bad == {t \in i..Len(s) : ~Matches(s[t], it, ic)}
         IN  (IF bad = {} THEN Len(s) + 1 ELSE SetMin(bad)) - i
    ELSE IF i <= Len(s) /\ Matches(s[i], it, ic) THEN 1 ELSE 0

\* The one element of a singleton.  {e(v) : v \in {x}} evaluates x once and
\* names its value v in e.
The(S) == CHOOSE x \in S : TRUE

\* Of the outcomes rest[c] of the counts c that item it may take, the one that
\* backtracking reaches first: the largest successful count, or the smallest
\* for a lazy item.  isGroup: the item opens group 1, which then starts at i.
PickCount(rest, it, isGroup, i) ==
    LET good == {c \in DOMAIN rest : rest[c] # <<>>}
    IN  IF good = {} THEN <<>>
        ELSE LET c == IF it.lazy THEN SetMin(good) ELSE SetMax(good)
             IN  IF isGroup THEN <<i, rest[c][2]>> ELSE rest[c]

\* The match of items k.. of pattern p at position i of s that backtracking
\* finds first: <<start of group 1, end>> (end is one past the last character),
\* or <<>> when there is none.
RECURSIVE MatchFrom(_, _, _, _)
MatchFrom(p, k, s, i) ==
    IF k > Len(p.items) THEN <<i, i>>
    ELSE The({ PickCount(rest, p.items[k], k = p.group, i) :
               rest \in { [c \in p.items[k].min..MaxCount(s, i, p.items[k], p.ic)
                              |-> MatchFrom(p, k + 1, s, i + c)] } })

\* the characters of a class that is not negated (ic: with both cases)
ClassSet(it, ic) == IF ic THEN it.in \cup {SwapCase(c) : c \in it.in} ELSE it.in

\* the positions from `from` on where a match of p can start: where the
\* first item, if it must take a character, finds one of its class
Starts(p, s, from) ==
    IF p.items[1].min >= 1 /\ ~p.items[1].neg
    THEN UNION { {i \in from..Len(s) : s[i] \in first} :
                 first \in {ClassSet(p.items[1], p.ic)} }
    ELSE from..(Len(s) + 1)

\* every match of p in s, whatever precedes it, as <<start, start of group 1,
\* end>>
AllMatches(p, s) ==
    UNION { UNION { IF m = <<>> THEN {} ELSE {<<i>> \o m} :
                    m \in {MatchFrom(p, 1, s, i)} } :
            i \in Starts(p, s, 1) }

\* the leftmost of the matches that start at `from` or later, or <<>>
Leftmost(all, from) ==
    LET later == {m \in all : m[1] >= from}
    IN  IF later = {} THEN <<>>
        ELSE CHOOSE m \in later : \A o \in later : m[1] <= o[1]

\* pat.search(s)
Search(p, s) == Leftmost(AllMatches(p, s), 1)

\* the Python string of a sequence of characters
RECURSIVE Join(_)
Join(cs) ==
    IF Len(cs) = 0 THEN ""
    ELSE IF Len(cs) = 1 THEN cs[1]
    ELSE Join(SubSeq(cs, 1, Len(cs) \div 2)) \o Join(SubSeq(cs, Len(cs) \div 2 + 1, Len(cs)))

\* m.group(1)
Group1(s, m) == Join(SubSeq(s, m[2], m[3] - 1))

\* the scan of findall and sub: the non-overlapping matches among all, left
\* to right from position `from`
RECURSIVE Scan(_, _)
Scan(all, from) ==
    UNION { IF m = <<>> THEN {} ELSE {m} \cup Scan(all, m[3]) :
            m \in {Leftmost(all, from)} }

\* the matches pat.findall(s) returns, each as <<start, start of group 1, end>>
FindSpans(p, s) == UNION { Scan(all, 1) : all \in {AllMatches(p, s)} }

\* pat.findall(s), as a set
FindAll(p, s) == {Group1(s, m) : m \in FindSpans(p, s)}

\* re.sub(pat, '', s): the characters of s outside the matches the scan finds
SubEmpty(p, s) ==
    The({ [k \in 1..Len(kept) |-> s[kept[k]]] :
          kept \in { SelectSeq([i \in 1..Len(s) |-> i],
                               LAMBDA i : \A m \in cut : i < m[1] \/ i >= m[3]) :
                     cut \in { UNION {Scan(all, 1) : all \in {AllMatches(p, s)}} } } })

Pattern(pre, grp, ic) == [items |-> pre \o grp, group |-> Len(pre) + 1, ic |-> ic]

\* every match of the alternation (ps[1]|ps[2]|...) in s: at a position, the
\* match of the first alternative that matches there
AltMatches(ps, s) ==
    UNION { UNION { IF hit = {} THEN {}
                    ELSE {<<i>> \o MatchFrom(ps[SetMin(hit)], 1, s, i)} :
                    hit \in { {k \in DOMAIN ps : MatchFrom(ps[k], 1, s, i) # <<>>} } } :
            i \in UNION {Starts(ps[k], s, 1) : k \in DOMAIN ps} }

(***************************************************************************)
(* The program's patterns                                                  *)
(***************************************************************************)
W_12D3KooW ==
    <<"1", "2", "D", "3", "K", "o", "o", "W">>

W_local_peer_id ==
    <<"l", "o", "c", "a", "l", "_", "p", "e", "e", "r", "_", "i", "d">>

W_Local_Peer_ID ==
    <<"L", "o", "c", "a", "l", " ", "P", "e", "e", "r", " ", "I", "D", ":">>

W_SwarmBridge_with_peer_id ==
    <<"S", "w", "a", "r", "m", "B", "r", "i", "d", "g", "e", " ", "w", "i", "t", "h", " ", "p",
    "e", "e", "r", " ", "i", "d">>

W_Peer_ID ==
    <<"P", "e", "e", "r", " ", "I", "D", ":">>

W_SwarmBridge ==
    <<"S", "w", "a", "r", "m", "B", "r", "i", "d", "g", "e">>

W_peer ==
    <<"p", "e", "e", "r">>

W_id ==
    <<"i", "d">>

W_local ==
    <<"l", "o", "c", "a", "l">>

W_MeshService ==
    <<"M", "e", "s", "h", "S", "e", "r", "v", "i", "c", "e">>

W_started ==
    <<"s", "t", "a", "r", "t", "e", "d">>

W_our_peer_id ==
    <<"o", "u", "r", " ", "p", "e", "e", "r", " ", "i", "d">>

W_identity ==
    <<"i", "d", "e", "n", "t", "i", "t", "y">>

W_relay ==
    <<"r", "e", "l", "a", "y", "/">>

PatMinRun == 44

OwnMinRun == 44

MinCandidateLen == 52

W_Failed_to_negotiate ==
    <<"F", "a", "i", "l", "e", "d", " ", "t", "o", " ", "n", "e", "g", "o", "t", "i", "a", "t",
    "e">>

W_connection_error ==
    <<"c", "o", "n", "n", "e", "c", "t", "i", "o", "n", " ", "e", "r", "r", "o", "r">>

W_ERR == <<"E", "R", "R">>

\* (Failed to negotiate|connection error|ERR), re.I: its alternatives
ERROR_PAT ==
    <<Pattern(<<>>, Lit(W_Failed_to_negotiate), TRUE),
      Pattern(<<>>, Lit(W_connection_error), TRUE),
      Pattern(<<>>, Lit(W_ERR), TRUE)>>

\* the length of the suffix searched for recent errors
RecentWindow == 2000

\* PAT with a lazy repetition, {44,}?
PatLazy ==
    Pattern(<<>>, Lit(W_12D3KooW)
                      \o <<[AtLeast(Base58, PatMinRun) EXCEPT !.lazy = TRUE]>>, FALSE)

\* (12D3KooW[1-9A-HJ-NP-Za-km-z]{44,})
PAT == Pattern(<<>>, Lit(W_12D3KooW) \o <<AtLeast(Base58, PatMinRun)>>, FALSE)

\* \x1b\[.*?m
ANSI_PAT == Pattern(<<One({"ESC"}), One({"["}), DotStarLazy, One({"m"})>>, <<>>, FALSE)

\* (12D3KooW[a-zA-Z0-9]{44,}), the group every own-id pattern ends with
OwnIdGroup == Lit(W_12D3KooW) \o <<AtLeast(Alnum, OwnMinRun)>>

OWN_ID_PATTERNS ==
    << \* local_peer_id\s*=\s*(...)
       Pattern(Lit(W_local_peer_id) \o <<Star(Space), One({"="}), Star(Space)>>,
               OwnIdGroup, FALSE),
       \* Local Peer ID:\s*(...)
       Pattern(Lit(W_Local_Peer_ID) \o <<Star(Space)>>, OwnIdGroup, FALSE),
       \* SwarmBridge with peer id:?\s*(...)
       Pattern(Lit(W_SwarmBridge_with_peer_id) \o <<Opt({":"}), Star(Space)>>,
               OwnIdGroup, FALSE),
       \* Peer ID:\s*(...)
       Pattern(Lit(W_Peer_ID) \o <<Star(Space)>>, OwnIdGroup, FALSE),
       \* SwarmBridge.*peer[_ ]id[=:]\s*(...), re.I
       Pattern(Lit(W_SwarmBridge) \o <<DotStar>> \o Lit(W_peer) \o <<One({"_", " "})>>
                   \o Lit(W_id) \o <<One({"=", ":"}), Star(Space)>>,
               OwnIdGroup, TRUE),
       \* local.*peer.*id[=:]\s*(...), re.I
       Pattern(Lit(W_local) \o <<DotStar>> \o Lit(W_peer) \o <<DotStar>>
                   \o Lit(W_id) \o <<One({"=", ":"}), Star(Space)>>,
               OwnIdGroup, TRUE),
       \* MeshService.*started.*?(...), re.I
       Pattern(Lit(W_MeshService) \o <<DotStar>> \o Lit(W_started) \o <<DotStarLazy>>,
               OwnIdGroup, TRUE),
       \* our peer id[:\s]+(...), re.I
       Pattern(Lit(W_our_peer_id) \o <<AtLeast({":"} \cup Space, 1)>>, OwnIdGroup, TRUE),
       \* identity.*?(...), re.I
       Pattern(Lit(W_identity) \o <<DotStarLazy>>, OwnIdGroup, TRUE),
       \* relay/(...)
       Pattern(Lit(W_relay), OwnIdGroup, FALSE) >>

(***************************************************************************)
(* Nodes, roles and the hint table                                         *)
(***************************************************************************)
\* the keys of logs, in the order the program iterates them
NodeSeq == <<"gcp", "osx", "android", "ios_dev", "ios_sim">>

Nodes == Range(NodeSeq)

NODE_TYPES ==
    [n \in Nodes |-> IF n \in {"gcp", "osx"} THEN "Headless" ELSE "Full"]

ID_GCP ==
    <<"1", "2", "D", "3", "K", "o", "o", "W", "M", "y", "n", "g", "f", "N", "Z", "a", "j", "W",
    "R", "N", "R", "P", "d", "t", "c", "3", "2", "u", "x", "n", "1", "s", "B", "Y", "Z", "E",
    "1", "2", "6", "N", "D", "D", "4", "b", "5", "4", "7", "B", "A", "M", "L", "j">>

ID_OSX ==
    <<"1", "2", "D", "3", "K", "o", "o", "W", "H", "p", "m", "u", "h", "y", "t", "g", "z", "L",
    "c", "M", "4", "n", "j", "1", "h", "Z", "v", "N", "5", "b", "4", "c", "r", "B", "1", "w",
    "k", "a", "3", "L", "C", "N", "f", "K", "R", "C", "d", "7", "y", "H", "j", "9">>

ID_ANDROID ==
    <<"1", "2", "D", "3", "K", "o", "o", "W", "K", "8", "t", "m", "9", "q", "s", "p", "f", "8",
    "F", "Z", "4", "s", "r", "2", "V", "H", "R", "4", "8", "a", "z", "h", "Y", "u", "x", "C",
    "s", "i", "u", "7", "E", "e", "5", "y", "Q", "V", "o", "C", "h", "a", "m", "U">>

ID_IOS_SIM ==
    <<"1", "2", "D", "3", "K", "o", "o", "W", "H", "q", "a", "2", "j", "d", "8", "E", "c", "3",
    "b", "b", "X", "R", "2", "4", "F", "n", "8", "L", "c", "2", "r", "P", "Q", "Q", "w", "j",
    "e", "E", "i", "Y", "2", "z", "U", "y", "X", "X", "M", "C", "e", "z", "2", "7">>

ID_IOS_DEV ==
    <<"1", "2", "D", "3", "K", "o", "o", "W", "A", "q", "r", "Z", "F", "h", "8", "4", "t", "7",
    "W", "b", "g", "k", "T", "c", "x", "U", "G", "e", "s", "H", "x", "L", "U", "H", "1", "g",
    "T", "Y", "4", "s", "z", "f", "e", "4", "a", "E", "X", "X", "q", "v", "v", "g">>

\* TARGET_IDS as its items, in insertion order
TARGET_IDS ==
    << <<Join(ID_GCP), "gcp">>, <<Join(ID_OSX), "osx">>, <<Join(ID_ANDROID), "android">>,
       <<Join(ID_IOS_SIM), "ios_sim">>, <<Join(ID_IOS_DEV), "ios_dev">> >>

TargetKeys == {TARGET_IDS[i][1] : i \in DOMAIN TARGET_IDS}

\* Python's None and the falsy result of a failed lookup (no identifier is the
\* empty string)
None == ""

(***************************************************************************)
(* resolve_own_id                                                          *)
(***************************************************************************)
\* re.sub(r'\x1b\[.*?m', '', content)
StripAnsi(content) == SubEmpty(ANSI_PAT, content)

\* set(PAT.findall(clean))
PeersInLog(clean) == FindAll(PAT, clean)

\* FirstCandidate with the match that starts first in the text winning,
\* whatever its pattern's place in the list
LeftmostCandidate(clean, k) ==
    The({ IF \A j \in DOMAIN hits : hits[j] = <<>> THEN None
          ELSE Group1(clean, hits[CHOOSE j \in DOMAIN hits :
                                     /\ hits[j] # <<>>
                                     /\ \A i \in DOMAIN hits :
                                            hits[i] # <<>> => hits[j][1] <= hits[i][1]]) :
          hits \in { [j \in k..Len(OWN_ID_PATTERNS) |->
                         Search(OWN_ID_PATTERNS[j], clean)] } })

\* the loop over OWN_ID_PATTERNS from pattern k on: the first candidate of
\* sufficient length, or None
RECURSIVE FirstCandidate(_, _)
FirstCandidate(clean, k) ==
    IF k > Len(OWN_ID_PATTERNS) THEN None
    ELSE The({ IF m # <<>> /\ m[3] - m[2] >= MinCandidateLen
               THEN Group1(clean, m)
               ELSE FirstCandidate(clean, k + 1) :
               m \in {Search(OWN_ID_PATTERNS[k], clean)} })

\* HintFallback without the test label == name
RECURSIVE AnyHintFallback(_, _, _)
AnyHintFallback(name, clean, k) ==
    IF k > Len(TARGET_IDS) THEN None
    ELSE IF TARGET_IDS[k][1] \in PeersInLog(clean)
         THEN TARGET_IDS[k][1]
         ELSE AnyHintFallback(name, clean, k + 1)

\* the fallback loop over TARGET_IDS.items() from item k on
RECURSIVE HintFallback(_, _, _)
HintFallback(name, clean, k) ==
    IF k > Len(TARGET_IDS) THEN None
    ELSE IF TARGET_IDS[k][2] = name /\ TARGET_IDS[k][1] \in PeersInLog(clean)
         THEN TARGET_IDS[k][1]
         ELSE HintFallback(name, clean, k + 1)

\* resolve_own_id on the text with its colour codes already stripped
ResolveClean(name, clean) ==
    The({ IF cand # None THEN cand ELSE HintFallback(name, clean, 1) :
          cand \in {FirstCandidate(clean, 1)} })

resolve_own_id(name, content) ==
    The({ ResolveClean(name, clean) : clean \in {StripAnsi(content)} })

(***************************************************************************)
(* The log files.  A log is a sequence of lines, each of one of a few      *)
(* kinds; Content gives the characters the monitor reads from it.          *)
(***************************************************************************)
\* an identifier of the base-58 shape that the hint table does not hold
ID_ROTATED ==
    <<"1", "2", "D", "3", "K", "o", "o", "W", "R", "o", "t", "a", "t", "e", "d", "K", "e", "y",
    "Q", "m", "Y", "w", "A", "P", "J", "z", "v", "5", "C", "Z", "s", "n", "A", "6", "2", "5",
    "s", "3", "X", "f", "2", "n", "e", "m", "t", "Y", "g", "P", "p", "H", "d", "W">>

\* the identifier of a relay outside the five nodes
ID_STRAY ==
    <<"1", "2", "D", "3", "K", "o", "o", "W", "S", "t", "r", "a", "y", "P", "e", "e", "r", "B",
    "v", "F", "3", "Z", "U", "h", "W", "9", "s", "C", "y", "T", "6", "o", "G", "d", "c", "h",
    "b", "m", "E", "1", "t", "L", "2", "K", "x", "z", "3", "V", "k", "N", "A", "r">>

\* the characters of the identifier the hint table gives node n
HintId(n) ==
    CASE n = "gcp" -> ID_GCP
      [] n = "osx" -> ID_OSX
      [] n = "android" -> ID_ANDROID
      [] n = "ios_sim" -> ID_IOS_SIM
      [] n = "ios_dev" -> ID_IOS_DEV

RECURSIVE Concat(_)
Concat(ss) == IF ss = <<>> THEN <<>> ELSE Head(ss) \o Concat(Tail(ss))

\* the four other nodes' hinted identifiers, each after a space
OtherIds(n) ==
    Concat([k \in 1..Len(NodeSeq) |->
               IF NodeSeq[k] = n THEN <<>> ELSE <<" ">> \o HintId(NodeSeq[k])])

LineKinds == {"announce", "peers", "rotated", "relay", "self"}

\* the characters of a line of kind l in node n's log
LineText(n, l) ==
    CASE l = "announce" ->          \* Peer ID: <the node's hinted identifier>
           <<"P", "e", "e", "r", " ", "I", "D", ":", " ">> \o HintId(n) \o <<"\n">>
      [] l = "peers" ->             \* connected to <the other four identifiers>
           <<"c", "o", "n", "n", "e", "c", "t", "e", "d", " ", "t", "o">> \o OtherIds(n) \o <<"\n">>
      [] l = "rotated" ->           \* local_peer_id=<ID_ROTATED>, the field name in colour
           <<"ESC", "[", "3", "m", "l", "o", "c", "a", "l", "_", "p", "e", "e", "r", "_", "i", "d">>
               \o <<"ESC", "[", "0", "m", "=">>
               \o ID_ROTATED \o <<"\n">>
      [] l = "relay" ->             \* agent_version relay/<ID_STRAY>
           <<"a", "g", "e", "n", "t", "_", "v", "e", "r", "s", "i", "o", "n", " ", "r", "e", "l", "a",
               "y", "/">> \o ID_STRAY \o <<"\n">>
      [] l = "self" ->              \* listening as <the node's hinted identifier>
           <<"l", "i", "s", "t", "e", "n", "i", "n", "g", " ", "a", "s", " ">> \o HintId(n)
               \o <<"\n">>

\* f.read() of node n's log holding the lines t
Content(n, t) == Concat([k \in 1..Len(t) |-> LineText(n, t[k])])

\* the most writes to the logs in a run
MaxWrites == 2

\* the log a node has written once it is up: its announcement and its peers
BootLog == <<"announce", "peers">>

RECURSIVE SeqsUpTo(_, _)
SeqsUpTo(S, n) ==
    IF n = 0 THEN {<<>>}
    ELSE LET shorter == SeqsUpTo(S, n - 1)
         IN  shorter \cup {Append(s, x) : s \in {s \in shorter : Len(s) = n - 1}, x \in S}

\* the logs a run can meet
Logs == {b \o e : b \in {<<>>, BootLog}, e \in SeqsUpTo(LineKinds, MaxWrites)}

\* per node and log, what the cycle computes from the text read:
\* set(PAT.findall(clean)) and resolve_own_id(name, content)
Extracted ==
    [n \in Nodes, t \in Logs |->
        UNION { UNION { PeersInLog(clean) : clean \in {StripAnsi(content)} } :
                content \in {Content(n, t)} }]

Resolved ==
    [n \in Nodes, t \in Logs |->
        The({ resolve_own_id(n, content) : content \in {Content(n, t)} })]

(***************************************************************************)
(* The monitor                                                             *)
(***************************************************************************)
VARIABLES
    files,          \* the logs on disk, per node (written by the nodes)
    writes,         \* the number of writes to the logs so far
    matrix,         \* matrix: per node, the identifiers seen in its log
    file_to_id,     \* file_to_id: per node, its own identifier or None
    id_to_label,    \* id_to_label: identifier -> node name
    contents,       \* contents: per node, the log the last cycle read
    full_seen,      \* the last cycle's lists, per node
    headless_seen,
    missing,
    all_ok,         \* the last cycle's all_ok
    strays,         \* the last cycle's external peers, per node
    status,         \* the last cycle's overall health line
    tried,          \* history: per node, whether resolve_own_id has returned None for it
    sample,         \* a text put to the node update on its own, as its pieces
    sample_node,    \* the node whose log the sample is
    phase,          \* "idle", "read", then "extracted" or "counted"
    sample_clean,   \* clean: the sample without its colour codes
    sample_spans,   \* the matches of PAT.findall(clean), with their positions
    sample_peers,   \* peers_in_log
    sample_own,     \* own
    errors,         \* errors
    recent_errors   \* recent_errors

vars == <<files, writes, matrix, file_to_id, id_to_label, contents,
          full_seen, headless_seen, missing, all_ok, strays, status, tried,
          sample, sample_node, phase, sample_clean, sample_spans, sample_peers,
          sample_own, errors, recent_errors>>

\* the variables of the node update on a sample
probe == <<sample, sample_node, phase, sample_clean, sample_spans, sample_peers,
           sample_own, errors, recent_errors>>

monitor == <<matrix, file_to_id, id_to_label, contents,
             full_seen, headless_seen, missing, all_ok, strays, status, tried>>

\* id_to_label = TARGET_IDS.copy()
TargetLabels == [p \in TargetKeys |->
                    TARGET_IDS[CHOOSE k \in DOMAIN TARGET_IDS : TARGET_IDS[k][1] = p][2]]

\* no sample is being looked at
ProbeIdle ==
    /\ sample = <<>> /\ sample_node = "gcp" /\ phase = "idle"
    /\ sample_clean = <<>> /\ sample_spans = {} /\ sample_peers = {}
    /\ sample_own = None /\ errors = 0 /\ recent_errors = 0

\* The monitor starts with empty dictionaries.  The logs are still empty, or
\* every node is already up and has written its boot log.
MonitorInit ==
    /\ files \in {[n \in Nodes |-> <<>>], [n \in Nodes |-> BootLog]}
    /\ writes = 0
    /\ matrix = [n \in Nodes |-> {}]
    /\ file_to_id = [n \in Nodes |-> None]
    /\ id_to_label = TargetLabels
    /\ contents = [n \in Nodes |-> <<>>]
    /\ full_seen = [n \in Nodes |-> <<>>]
    /\ headless_seen = [n \in Nodes |-> <<>>]
    /\ missing = [n \in Nodes |-> <<>>]
    /\ all_ok = FALSE
    /\ strays = [n \in Nodes |-> {}]
    /\ status = [kind |-> "none", count |-> 0]
    /\ tried = [n \in Nodes |-> FALSE]

Init == MonitorInit /\ ProbeIdle

\* a node appends a line to its log
AppendLine(n, l) ==
    /\ writes < MaxWrites
    /\ files' = [files EXCEPT ![n] = Append(@, l)]
    /\ writes' = writes + 1
    /\ UNCHANGED <<monitor, probe>>

\* a node's log is removed or emptied (the log collection restarts)
TruncateLog(n) ==
    /\ writes < MaxWrites
    /\ files[n] # <<>>
    /\ files' = [files EXCEPT ![n] = <<>>]
    /\ writes' = writes + 1
    /\ UNCHANGED <<monitor, probe>>

\* UpdateMatrix as an assignment, matrix[name] = peers_in_log
AssignMatrix(seen, peers_in_log) == peers_in_log

\* matrix[name].update(peers_in_log)
UpdateMatrix(seen, peers_in_log) == seen \cup peers_in_log

\* UpdateIdentity without the test name not in file_to_id
RebindIdentity(st, name, own) ==
    IF own # None
    THEN [st EXCEPT !.file_to_id[name] = own,
                    !.id_to_label = (own :> name) @@ st.id_to_label]
    ELSE [st EXCEPT !.tried[name] = TRUE]

\* UpdateIdentity that gives up on a node once resolve_own_id has failed for it
ResolveOnce(st, name, own) ==
    IF st.file_to_id[name] # None \/ st.tried[name] THEN st
    ELSE IF own # None
    THEN [st EXCEPT !.file_to_id[name] = own,
                    !.id_to_label = (own :> name) @@ st.id_to_label]
    ELSE [st EXCEPT !.tried[name] = TRUE]

\* if name not in file_to_id: own = resolve_own_id(name, content);
\* if own: file_to_id[name] = own; id_to_label[own] = name
UpdateIdentity(st, name, own) ==
    IF st.file_to_id[name] # None THEN st
    ELSE IF own # None
    THEN [st EXCEPT !.file_to_id[name] = own,
                    !.id_to_label = (own :> name) @@ st.id_to_label]
    ELSE [st EXCEPT !.tried[name] = TRUE]

\* UpdateNode that clears the matrix entry of a node whose log has no text
UpdateNodeClearing(st, name, t) ==
    IF t = <<>> THEN [st EXCEPT !.matrix[name] = {}]
    ELSE UpdateIdentity(
             [st EXCEPT !.matrix[name] = UpdateMatrix(@, Extracted[name, t])],
             name, Resolved[name, t])

\* UpdateNode that drops the binding of a node whose log has no text
UpdateNodeUnbinding(st, name, t) ==
    IF t = <<>> THEN [st EXCEPT !.file_to_id[name] = None]
    ELSE UpdateIdentity(
             [st EXCEPT !.matrix[name] = UpdateMatrix(@, Extracted[name, t])],
             name, Resolved[name, t])

\* UpdateNode that resolves a node only once its matrix entry has been filled
\* by an earlier cycle
UpdateNodeLagging(st, name, t) ==
    IF t = <<>> THEN st
    ELSE IF st.matrix[name] = {}
    THEN [st EXCEPT !.matrix[name] = UpdateMatrix(@, Extracted[name, t])]
    ELSE UpdateIdentity(
             [st EXCEPT !.matrix[name] = UpdateMatrix(@, Extracted[name, t])],
             name, Resolved[name, t])

\* the body of the update loop for one node: st is the monitor's dictionaries,
\* t the log read for the node
UpdateNode(st, name, t) ==
    IF t = <<>> THEN st
    ELSE UpdateIdentity(
             [st EXCEPT !.matrix[name] = UpdateMatrix(@, Extracted[name, t])],
             name, Resolved[name, t])

\* the update loop over contents.items(), from node k of NodeSeq on
RECURSIVE UpdateAll(_, _, _)
UpdateAll(st, read, k) ==
    IF k > Len(NodeSeq) THEN st
    ELSE UpdateAll(UpdateNode(st, NodeSeq[k], read[NodeSeq[k]]), read, k + 1)

\* other_id and other_id in seen_ids
Sees(st, name, other) ==
    /\ st.file_to_id[other] # None
    /\ st.file_to_id[other] \in st.matrix[name]

\* FullSeen without the test other_name == name
FullSeenWithSelf(st, name) ==
    SelectSeq(NodeSeq, LAMBDA o : Sees(st, name, o) /\ NODE_TYPES[o] = "Full")

FullSeen(st, name) ==
    SelectSeq(NodeSeq, LAMBDA o : o # name /\ Sees(st, name, o) /\ NODE_TYPES[o] = "Full")

HeadlessSeen(st, name) ==
    SelectSeq(NodeSeq, LAMBDA o : o # name /\ Sees(st, name, o) /\ NODE_TYPES[o] # "Full")

\* MissingLabel with the two labels exchanged
SwappedLabel(st, other) ==
    IF st.file_to_id[other] # None THEN other \o "?" ELSE other

\* label = other_name if other_id else f"{other_name}?"
MissingLabel(st, other) ==
    IF st.file_to_id[other] # None THEN other ELSE other \o "?"

\* Missing that lists only the nodes whose identifier is known and unseen
MissingResolvedOnly(st, name) ==
    LET gone == SelectSeq(NodeSeq, LAMBDA o : /\ o # name
                                              /\ st.file_to_id[o] # None
                                              /\ ~Sees(st, name, o))
    IN  [k \in 1..Len(gone) |-> MissingLabel(st, gone[k])]

Missing(st, name) ==
    LET gone == SelectSeq(NodeSeq, LAMBDA o : o # name /\ ~Sees(st, name, o))
    IN  [k \in 1..Len(gone) |-> MissingLabel(st, gone[k])]

\* all_ok after the matrix loop: no node had a missing entry
AllOk(st) == \A name \in Nodes : Missing(st, name) = <<>>

\* all_known = set(TARGET_IDS.keys()) | set(file_to_id.values())
AllKnown(st) == TargetKeys \cup (Range(st.file_to_id) \ {None})

\* Strays without the test p not in all_known
StraysNotOwn(st, name) ==
    {p \in st.matrix[name] : p # st.file_to_id[name]}

\* strays = [p for p in matrix[name] if p not in all_known and p != file_to_id.get(name)]
Strays(st, name) ==
    {p \in st.matrix[name] : p \notin AllKnown(st) /\ p # st.file_to_id[name]}

\* Status without all_ok in the first test
StatusByIdsOnly(st) ==
    LET ids_found == Cardinality({n \in Nodes : st.file_to_id[n] # None})
        gaps == {<<n, o>> \in Nodes \X Nodes :
                    /\ o # n
                    /\ \/ st.file_to_id[o] = None
                       \/ st.file_to_id[o] \notin st.matrix[n]}
    IN  IF ids_found = Cardinality(Nodes)
        THEN [kind |-> "full", count |-> 0]
        ELSE [kind |-> "waiting", count |-> Cardinality(Nodes) - ids_found]

\* Status that counts the nodes with a gap, not the gaps
StatusGapNodes(st) ==
    LET ids_found == Cardinality({n \in Nodes : st.file_to_id[n] # None})
        gaps == {n \in Nodes : \E o \in Nodes \ {n} :
                    \/ st.file_to_id[o] = None
                    \/ st.file_to_id[o] \notin st.matrix[n]}
    IN  IF AllOk(st) /\ ids_found = Cardinality(Nodes)
        THEN [kind |-> "full", count |-> 0]
        ELSE IF ids_found < Cardinality(Nodes)
        THEN [kind |-> "waiting", count |-> Cardinality(Nodes) - ids_found]
        ELSE [kind |-> "partial", count |-> Cardinality(gaps)]

\* the overall health line
Status(st) ==
    LET ids_found == Cardinality({n \in Nodes : st.file_to_id[n] # None})
        gaps == {<<n, o>> \in Nodes \X Nodes :
                    /\ o # n
                    /\ \/ st.file_to_id[o] = None
                       \/ st.file_to_id[o] \notin st.matrix[n]}
    IN  IF AllOk(st) /\ ids_found = Cardinality(Nodes)
        THEN [kind |-> "full", count |-> 0]
        ELSE IF ids_found < Cardinality(Nodes)
        THEN [kind |-> "waiting", count |-> Cardinality(Nodes) - ids_found]
        ELSE [kind |-> "partial", count |-> Cardinality(gaps)]

\* total = len(logs) - 1
Total == Len(NodeSeq) - 1

\* the target shown in the Sees Full column
FullTarget == Cardinality({n \in Nodes : NODE_TYPES[n] = "Full"}) - 1

\* the target shown in the Sees Headless column
HeadlessTarget == Cardinality({n \in Nodes : NODE_TYPES[n] = "Headless"})

\* the monitor's dictionaries (and the history) as one record
Dicts == [matrix |-> matrix, file_to_id |-> file_to_id,
          id_to_label |-> id_to_label, tried |-> tried]

\* one pass of the while loop: read the logs, update, render
Cycle ==
    \E st \in {UpdateAll(Dicts, files, 1)} :
        /\ contents' = files
        /\ matrix' = st.matrix
        /\ file_to_id' = st.file_to_id
        /\ id_to_label' = st.id_to_label
        /\ tried' = st.tried
        /\ full_seen' = [n \in Nodes |-> FullSeen(st, n)]
        /\ headless_seen' = [n \in Nodes |-> HeadlessSeen(st, n)]
        /\ missing' = [n \in Nodes |-> Missing(st, n)]
        /\ all_ok' = AllOk(st)
        /\ strays' = [n \in Nodes |-> Strays(st, n)]
        /\ status' = Status(st)
        /\ UNCHANGED <<files, writes, probe>>

Next ==
    \/ \E n \in Nodes, l \in LineKinds : AppendLine(n, l)
    \/ \E n \in Nodes : TruncateLog(n)
    \/ Cycle

Spec == Init /\ [][Next]_vars

(***************************************************************************)
(* The event summary                                                       *)
(***************************************************************************)
\* len(pat.findall(content)) for an alternation pat
count_events(content, pat) == Cardinality(Scan(AltMatches(pat, content), 1))

\* c with nothing cut off
Whole(c, n) == c

\* c[-n:]
Suffix(c, n) == IF Len(c) > n THEN SubSeq(c, Len(c) - n + 1, Len(c)) ELSE c

(***************************************************************************)
(* The node update on sample texts.  A sample is a sequence of pieces put  *)
(* together with nothing between them.                                     *)
(***************************************************************************)
\* an identifier with characters outside the base-58 alphabet
ID_LEGACY ==
    <<"1", "2", "D", "3", "K", "o", "o", "W", "L", "e", "g", "a", "c", "y", "N", "o", "d", "e",
    "0", "l", "I", "O", "x", "Q", "m", "Y", "w", "A", "P", "J", "z", "v", "5", "C", "Z", "s",
    "n", "A", "6", "2", "5", "s", "3", "X", "f", "2", "n", "e", "m", "t", "Y", "g">>

ExtractPieces == {"id", "legacy", "short", "tag", "zero", "colour", "newline"}

\* the characters of a piece
PieceText(p) ==
    CASE p = "id" -> ID_GCP
      [] p = "legacy" -> ID_LEGACY
      [] p = "short" -> <<"1", "2", "D", "3", "K", "o", "o", "W", "a", "b", "c">>
      [] p = "tag" -> <<"P", "e", "e", "r", " ", "I", "D", ":", " ">>
      [] p = "zero" -> <<"0">>
      [] p = "colour" -> <<"ESC", "[", "0", "m">>
      [] p = "newline" -> <<"\n">>

\* the text of a sample
SampleText(t) == Concat([k \in 1..Len(t) |-> PieceText(t[k])])

\* the most pieces in a sample
MaxPieces == 3

\* the nodes whose log a sample can be: one the sample's identifier is hinted
\* for, and one it is not
SampleNodes == {"gcp", "osx"}

ExtractInit ==
    /\ MonitorInit /\ files = [n \in Nodes |-> <<>>]
    /\ sample \in SeqsUpTo(ExtractPieces, MaxPieces) \ {<<>>}
    /\ sample_node \in SampleNodes
    /\ phase = "read"
    /\ sample_clean = <<>> /\ sample_spans = {} /\ sample_peers = {}
    /\ sample_own = None /\ errors = 0 /\ recent_errors = 0

\* the update of one unresolved node from its non-empty content: clean,
\* peers_in_log and own
Extract ==
    /\ phase = "read"
    /\ \E content \in {SampleText(sample)} :
           \E c \in {StripAnsi(content)} :
               /\ sample_clean' = c
               /\ sample_spans' = FindSpans(PAT, c)
               /\ sample_peers' = PeersInLog(c)
               /\ sample_own' = resolve_own_id(sample_node, content)
    /\ phase' = "extracted"
    /\ UNCHANGED <<files, writes, monitor, sample, sample_node, errors, recent_errors>>

ExtractNext == Extract

ExtractSpec == ExtractInit /\ [][ExtractNext]_vars

\* the length of the padding between the events of a sample
PadLen == 1990

EventPieces == {"ERR", "conn", "failed", "pad", "x"}

\* the characters of a piece of a sample for the event summary
EventText(p) ==
    CASE p = "ERR" -> W_ERR
      [] p = "conn" -> W_connection_error
      [] p = "failed" -> W_Failed_to_negotiate
      [] p = "pad" -> [i \in 1..PadLen |-> IF i = PadLen THEN "\n" ELSE "."]
      [] p = "x" -> <<"x">>

EventSample(t) == Concat([k \in 1..Len(t) |-> EventText(t[k])])

CountInit ==
    /\ MonitorInit /\ files = [n \in Nodes |-> <<>>]
    /\ sample \in SeqsUpTo(EventPieces, MaxPieces)
    /\ sample_node = "gcp"
    /\ phase = "read"
    /\ sample_clean = <<>> /\ sample_spans = {} /\ sample_peers = {}
    /\ sample_own = None /\ errors = 0 /\ recent_errors = 0

\* the event summary of one node: errors and recent_errors
Count ==
    /\ phase = "read"
    /\ \E c \in {EventSample(sample)} :
           /\ errors' = count_events(c, ERROR_PAT)
           /\ recent_errors' = IF c # <<>>
                               THEN count_events(Suffix(c, RecentWindow), ERROR_PAT)
                               ELSE 0
    /\ phase' = "counted"
    /\ UNCHANGED <<files, writes, monitor, sample, sample_node,
                   sample_clean, sample_spans, sample_peers, sample_own>>

CountNext == Count

CountSpec == CountInit /\ [][CountNext]_vars

(***************************************************************************)
(* Properties                                                              *)
(***************************************************************************)
\* per node and log, each own-id pattern's match in the stripped text:
\* <<where it starts, its group 1>>, or <<>>
PatternHits ==
    [n \in Nodes, t \in Logs |->
        The({ [k \in DOMAIN OWN_ID_PATTERNS |->
                  The({ IF m = <<>> THEN <<>> ELSE <<m[1], Group1(clean, m)>> :
                        m \in {Search(OWN_ID_PATTERNS[k], clean)} })] :
              clean \in { StripAnsi(content) : content \in {Content(n, t)} } })]

\* the patterns that match node n's log t
Matched(n, t) == {k \in DOMAIN OWN_ID_PATTERNS : PatternHits[n, t][k] # <<>>}

\* a step that is a refresh cycle
CycleStep == writes' = writes /\ contents' = files

\* a cycle has rendered
Rendered == status.kind # "none"

\* the number of times x is in the list
Occ(list, x) == Cardinality({k \in DOMAIN list : list[k] = x})

\* C1: once file_to_id[name] is set, no later step changes it, whatever the
\* node's log holds afterwards: a node only goes from Unresolved to Resolved.
C1_WriteOnce ==
    [][\A n \in Nodes : file_to_id[n] # None => file_to_id'[n] = file_to_id[n]]_vars

\* a cycle has read, for a bound node, a log that now resolves to another
\* identifier (through a pattern of higher priority), and the binding stands
C1_Witness ==
    \E n \in Nodes :
        /\ Rendered /\ contents[n] # <<>>
        /\ file_to_id[n] # None
        /\ Resolved[n, contents[n]] \notin {None, file_to_id[n]}
        /\ Resolved[n, contents[n]] \in matrix[n]

\* C2: matrix[name] after a step is a superset of matrix[name] before it, also
\* when the text read no longer holds an identifier seen earlier.
C2_Monotone ==
    [][\A n \in Nodes : matrix[n] \subseteq matrix'[n]]_vars

\* the last cycle read a log that lacks an identifier the node has seen
C2_Witness ==
    \E n \in Nodes :
        /\ Rendered
        /\ \E p \in matrix[n] :
               contents[n] = <<>> \/ p \notin Extracted[n, contents[n]]

\* C3: a cycle reports FULL MESH iff for every ordered pair of distinct nodes
\* (A, B), B is bound and B's identifier is in matrix[A].
C3_Convergence ==
    Rendered =>
        ((status.kind = "full") <=>
            \A a \in Nodes, b \in Nodes :
                a # b => file_to_id[b] # None /\ file_to_id[b] \in matrix[a])

C3_Witness == status.kind = "full"

\* C4: when a cycle resolves a node whose log several patterns match, the node
\* is bound to the capture of the pattern earliest in OWN_ID_PATTERNS, wherever
\* the matches are in the text; the hint table decides only when none matches.
C4_PatternPriority ==
    [][\A n \in Nodes :
          (CycleStep /\ file_to_id[n] = None /\ files[n] # <<>>
              /\ Matched(n, files[n]) # {})
          => file_to_id'[n] = PatternHits[n, files[n]][SetMin(Matched(n, files[n]))][2]
      ]_vars

\* a node is bound to the capture of a pattern although a pattern later in
\* the list matches a different identifier earlier in the text it read
C4_Witness ==
    \E n \in Nodes :
        /\ Rendered /\ contents[n] # <<>>
        /\ \E j \in Matched(n, contents[n]), k \in Matched(n, contents[n]) :
               /\ j < k
               /\ j = SetMin(Matched(n, contents[n]))
               /\ PatternHits[n, contents[n]][j][2] # PatternHits[n, contents[n]][k][2]
               /\ PatternHits[n, contents[n]][k][1] < PatternHits[n, contents[n]][j][1]
               /\ file_to_id[n] = PatternHits[n, contents[n]][j][2]
               /\ PatternHits[n, contents[n]][k][2] \in TargetKeys

\* C5: when no pattern matches the log of a node a cycle tries to resolve, the
\* node is bound to P iff TARGET_IDS maps P to the node and P is among the
\* identifiers extracted from its own log; otherwise it stays unresolved.  An
\* identifier hinted for another node is never accepted.
C5_HintFallback ==
    [][\A n \in Nodes :
          (CycleStep /\ file_to_id[n] = None /\ files[n] # <<>>
              /\ Matched(n, files[n]) = {})
          => LET accepted == {p \in TargetKeys :
                                 TargetLabels[p] = n /\ p \in Extracted[n, files[n]]}
             IN  IF accepted = {} THEN file_to_id'[n] = None
                 ELSE file_to_id'[n] \in accepted
      ]_vars

\* one node is bound through the hint table alone, and another, whose log
\* holds only identifiers hinted for other nodes, has been tried and left
\* unresolved
C5_Witness ==
    /\ \E n \in Nodes :
           /\ contents[n] = <<"self">> /\ Matched(n, contents[n]) = {}
           /\ matrix[n] = {Join(HintId(n))}
           /\ file_to_id[n] = Join(HintId(n))
    /\ \E n \in Nodes :
           /\ contents[n] = <<"peers">> /\ Matched(n, contents[n]) = {}
           /\ tried[n] /\ file_to_id[n] = None
           /\ matrix[n] \subseteq TargetKeys /\ matrix[n] # {}

\* C6: every cycle tries again to resolve a node that is still unresolved and
\* has text: when a pattern matches the text read, or the text holds the
\* node's hinted identifier, the node is resolved at the end of that cycle; and
\* a resolved node stays resolved.
C6_Retry ==
    [][\A n \in Nodes :
          /\ (CycleStep /\ file_to_id[n] = None /\ files[n] # <<>>
                 /\ (Matched(n, files[n]) # {} \/ Join(HintId(n)) \in Extracted[n, files[n]]))
             => file_to_id'[n] # None
          /\ file_to_id[n] # None => file_to_id'[n] # None
      ]_vars

\* a node that a cycle tried and failed to resolve is resolved now
C6_Witness ==
    \E n \in Nodes : tried[n] /\ file_to_id[n] # None

\* the entry of node b in a missing list, with either label
InMissing(list, b) == Occ(list, b) + Occ(list, b \o "?")

\* C7: for every node A, each other node is in exactly one of A's three lists
\* and A is in none; B is in a visible list iff B is bound and its identifier
\* is in matrix[A]; a visible B is in the Full list iff NODE_TYPES[B] is Full.
C7_Partition ==
    Rendered =>
        \A a \in Nodes :
            /\ \A b \in Nodes \ {a} :
                   /\ Occ(full_seen[a], b) + Occ(headless_seen[a], b)
                          + InMissing(missing[a], b) = 1
                   /\ (Occ(full_seen[a], b) + Occ(headless_seen[a], b) = 1)
                          <=> (file_to_id[b] # None /\ file_to_id[b] \in matrix[a])
                   /\ Occ(full_seen[a], b) = 1 => NODE_TYPES[b] = "Full"
                   /\ Occ(headless_seen[a], b) = 1 => NODE_TYPES[b] = "Headless"
            /\ Occ(full_seen[a], a) + Occ(headless_seen[a], a)
                   + InMissing(missing[a], a) = 0
            /\ Len(full_seen[a]) + Len(headless_seen[a]) + Len(missing[a])
                   = Cardinality(Nodes) - 1

\* a node with all three lists non-empty that has seen its own identifier
C7_Witness ==
    \E a \in Nodes :
        /\ full_seen[a] # <<>> /\ headless_seen[a] # <<>> /\ missing[a] # <<>>
        /\ file_to_id[a] \in matrix[a]

\* C8: B is in A's missing list as "B?" iff B has no binding, and as "B" iff B
\* is bound and its identifier is not in matrix[A]; an unresolved node is in
\* the missing list of every other node, as "B?".
C8_MissingReason ==
    Rendered =>
        \A a \in Nodes :
            \A b \in Nodes \ {a} :
                /\ (Occ(missing[a], b \o "?") = 1) <=> (file_to_id[b] = None)
                /\ (Occ(missing[a], b) = 1)
                       <=> (file_to_id[b] # None /\ file_to_id[b] \notin matrix[a])
                /\ Occ(missing[a], b \o "?") + Occ(missing[a], b) <= 1

\* a missing list that holds an entry of each kind
C8_Witness ==
    \E a \in Nodes, b \in Nodes, c \in Nodes :
        /\ Rendered
        /\ Occ(missing[a], b \o "?") = 1
        /\ Occ(missing[a], c) = 1

\* the overall health line with identifier p taken out of, or put into,
\* matrix[a]
StatusWithout(a, p) == Status([Dicts EXCEPT !.matrix[a] = @ \ {p}])

StatusWith(a, p) == Status([Dicts EXCEPT !.matrix[a] = @ \cup {p}])

\* C9: an identifier in matrix[A] that is no key of TARGET_IDS and bound to no
\* node is among A's strays and in no missing list, and the health line is
\* the same without it and with it in any other matrix; no identifier that is
\* bound or in the hint table is among the strays.
C9_Strays ==
    Rendered =>
        \A a \in Nodes :
            /\ \A p \in matrix[a] :
                   (p \notin TargetKeys /\ \A b \in Nodes : file_to_id[b] # p)
                   => /\ p \in strays[a]
                      /\ \A b \in Nodes : Occ(missing[b], p) = 0
                      /\ StatusWithout(a, p) = status
                      /\ \A b \in Nodes : StatusWith(b, p) = status
            /\ \A p \in strays[a] :
                   /\ p \in matrix[a]
                   /\ p \notin TargetKeys
                   /\ \A b \in Nodes : file_to_id[b] # p

\* a node with a stray in a mesh that is otherwise converged
C9_Witness ==
    \E a \in Nodes : strays[a] # {} /\ status.kind = "full"

\* the other four nodes, in order, each tagged unresolved
AllOthersUnresolved(n) ==
    LET others == SelectSeq(NodeSeq, LAMBDA o : o # n)
    IN  [k \in 1..Len(others) |-> others[k] \o "?"]

\* C10: at the start, and after any number of cycles in which no log has had
\* any text, every node is unresolved, every matrix entry is empty, the mesh
\* is not reported converged, and every node's missing list holds the four
\* other nodes, each as unresolved.
C10_EmptyStart ==
    (writes = 0 /\ \A n \in Nodes : files[n] = <<>>) =>
        /\ \A n \in Nodes : file_to_id[n] = None /\ matrix[n] = {}
        /\ status.kind # "full" /\ ~all_ok
        /\ Rendered =>
               /\ \A n \in Nodes : missing[n] = AllOthersUnresolved(n)
               /\ \A n \in Nodes : full_seen[n] = <<>> /\ headless_seen[n] = <<>>
               /\ status = [kind |-> "waiting", count |-> Cardinality(Nodes)]

\* a cycle has run over logs that have never had any text
C10_Witness ==
    /\ writes = 0 /\ \A n \in Nodes : files[n] = <<>>
    /\ Rendered

\* C11: a cycle run again over exactly the text the last cycle read leaves
\* matrix, file_to_id and id_to_label as they are and renders the same lists,
\* strays and health line.
C11_Idempotent ==
    (Rendered /\ contents = files) =>
        \A st \in {UpdateAll(Dicts, files, 1)} :
            /\ st.matrix = matrix
            /\ st.file_to_id = file_to_id
            /\ st.id_to_label = id_to_label
            /\ \A n \in Nodes :
                   /\ FullSeen(st, n) = full_seen[n]
                   /\ HeadlessSeen(st, n) = headless_seen[n]
                   /\ Missing(st, n) = missing[n]
                   /\ Strays(st, n) = strays[n]
            /\ AllOk(st) = all_ok
            /\ Status(st) = status

\* the last cycle read the text now on disk; it bound one node, extended its
\* matrix entry, and failed to resolve another that has text
C11_Witness ==
    /\ Rendered /\ contents = files
    /\ \E n \in Nodes : files[n] # <<>> /\ file_to_id[n] # None /\ matrix[n] # {}
    /\ \E n \in Nodes : files[n] # <<>> /\ file_to_id[n] = None /\ tried[n]

\* the update loop run over the nodes in the given order
RECURSIVE UpdateInOrder(_, _, _)
UpdateInOrder(st, read, order) ==
    IF order = <<>> THEN st
    ELSE UpdateInOrder(UpdateNode(st, Head(order), read[Head(order)]), read, Tail(order))

\* every order of the five nodes
Orders ==
    {o \in [1..Len(NodeSeq) -> Nodes] : \A i, j \in DOMAIN o : o[i] = o[j] => i = j}

\* C12: the update of a node reads and writes that node's state only, so the
\* matrix, file_to_id and id_to_label at the end of a cycle are the same for
\* every order in which the five nodes are updated.
C12_OrderIndependent ==
    \A st \in {UpdateAll(Dicts, files, 1)} :
        \A order \in Orders :
            \A other \in {UpdateInOrder(Dicts, files, order)} :
                /\ other.matrix = st.matrix
                /\ other.file_to_id = st.file_to_id
                /\ other.id_to_label = st.id_to_label

\* C15: no two distinct nodes are bound in file_to_id to the same identifier.
C15_UniqueBinding ==
    \A a \in Nodes, b \in Nodes :
        (a # b /\ file_to_id[a] # None) => file_to_id[a] # file_to_id[b]

\* b is in one of a's two visible lists
Visible(full, headless, a, b) == Occ(full[a], b) + Occ(headless[a], b) >= 1

\* C16: once a cycle reports FULL MESH every later cycle does, whatever the
\* logs hold afterwards, and once node A lists node B as visible it does so in
\* every later cycle.
C16_Stable ==
    [][/\ status.kind = "full" => status'.kind = "full"
       /\ \A a \in Nodes, b \in Nodes :
              Visible(full_seen, headless_seen, a, b)
              => Visible(full_seen', headless_seen', a, b)]_vars

\* FULL MESH is reported by a cycle that read a log, empty or not, without
\* the identifiers of the node's peers
C16_Witness ==
    /\ status.kind = "full"
    /\ \E n \in Nodes, b \in Nodes :
           /\ Visible(full_seen, headless_seen, n, b)
           /\ file_to_id[b] \notin Extracted[n, contents[n]]

\* C18: no node has more visible Full peers than the Full target shown, nor
\* more visible Headless peers than the Headless target shown; in a converged
\* mesh every node's two counts equal the two targets and sum to the total.
C18_Targets ==
    Rendered =>
        \A a \in Nodes :
            /\ Len(full_seen[a]) <= FullTarget
            /\ Len(headless_seen[a]) <= HeadlessTarget
            /\ status.kind = "full" =>
                   /\ Len(full_seen[a]) = FullTarget
                   /\ Len(headless_seen[a]) = HeadlessTarget
                   /\ Len(full_seen[a]) + Len(headless_seen[a]) = Total

\* the sum of the lengths of the five missing lists
RECURSIVE MissingTotal(_)
MissingTotal(k) ==
    IF k > Len(NodeSeq) THEN 0 ELSE Len(missing[NodeSeq[k]]) + MissingTotal(k + 1)

\* the nodes with no binding
Unresolved == {n \in Nodes : file_to_id[n] = None}

\* C19: a cycle reports exactly one of FULL MESH, waiting for k nodes with k
\* the number of unresolved nodes, at least 1, or partial mesh with g gaps;
\* partial is reported only with all five nodes resolved, and then g is at
\* least 1 and the number of entries of the five missing lists together.
C19_Status ==
    Rendered =>
        /\ status.kind \in {"full", "waiting", "partial"}
        /\ status.kind = "full" => Unresolved = {} /\ MissingTotal(1) = 0
        /\ status.kind = "waiting" =>
               status.count = Cardinality(Unresolved) /\ status.count >= 1
        /\ status.kind = "partial" =>
               /\ Unresolved = {}
               /\ status.count >= 1
               /\ status.count = MissingTotal(1)
        /\ Unresolved # {} => status.kind = "waiting"

\* a partial mesh is reported, with more than one gap
C19_Witness == status.kind = "partial" /\ status.count > 1

\* C20: a cycle that finds node A's log missing or empty leaves matrix[A] and
\* A's binding as they were, and still updates every other node from its own
\* text.
C20_EmptyNoOp ==
    [][CycleStep =>
          \A a \in Nodes :
              IF files[a] = <<>>
              THEN matrix'[a] = matrix[a] /\ file_to_id'[a] = file_to_id[a]
                   /\ tried'[a] = tried[a]
              ELSE /\ matrix'[a] = matrix[a] \cup Extracted[a, files[a]]
                   /\ file_to_id[a] = None => file_to_id'[a] = Resolved[a, files[a]]
      ]_vars

\* the last cycle found the log of a bound node with a non-empty matrix entry
\* empty, and resolved another node from its text
C20_Witness ==
    /\ Rendered
    /\ \E a \in Nodes :
           contents[a] = <<>> /\ matrix[a] # {} /\ file_to_id[a] # None
    /\ \E b \in Nodes :
           /\ contents[b] # <<>> /\ file_to_id[b] = Resolved[b, contents[b]]
           /\ file_to_id[b] # None /\ matrix[b] = Extracted[b, contents[b]]

\* the base-58 alphabet: letters and digits without 0, O, I and l
NoZeroOIl == Alnum \ {"0", "O", "I", "l"}

\* C13: the identifiers extracted from a text are a set, each the prefix
\* 12D3KooW followed by at least 44 characters of the base-58 alphabet, and a
\* maximal run is extracted as one identifier, never as two shorter ones.
C13_Shape ==
    phase = "extracted" =>
        /\ sample_peers = {Group1(sample_clean, m) : m \in sample_spans}
        /\ \A m \in sample_spans :
               /\ m[3] - m[1] >= Len(W_12D3KooW) + PatMinRun
               /\ SubSeq(sample_clean, m[1], m[1] + Len(W_12D3KooW) - 1) = W_12D3KooW
               /\ \A i \in (m[1] + Len(W_12D3KooW))..(m[3] - 1) :
                      sample_clean[i] \in NoZeroOIl
               /\ m[3] > Len(sample_clean) \/ sample_clean[m[3]] \notin NoZeroOIl
        /\ \A m \in sample_spans, o \in sample_spans :
               m # o => m[3] < o[1] \/ o[3] < m[1]

\* a run of two identifiers with nothing between them, extracted as one
C13_Witness ==
    /\ phase = "extracted"
    /\ \E m \in sample_spans : m[3] - m[1] >= 2 * (Len(W_12D3KooW) + PatMinRun)

\* C17: an identifier that resolve_own_id binds to a node has the shape PAT
\* accepts, so it is among the identifiers extracted from the node's own text
\* in the cycle that binds it.
C17_BoundExtractable ==
    (phase = "extracted" /\ sample_own # None) => sample_own \in sample_peers

\* the ERROR_PAT occurrences in the whole of text c
ErrorSpans(c) == Scan(AltMatches(ERROR_PAT, c), 1)

\* the position before the first character of the last RecentWindow ones
WindowCut(c) == IF Len(c) > RecentWindow THEN Len(c) - RecentWindow ELSE 0

\* C14: recent_errors counts the ERROR_PAT occurrences in the last 2000
\* characters of the node's text only: an occurrence that ends before that
\* suffix does not count and one inside it does, the count is 0 for an empty
\* text, and it is never more than errors, the count over the whole text.
C14_RecentWindow ==
    phase = "counted" =>
        \A c \in {EventSample(sample)} :
            \A all \in {ErrorSpans(c)} :
                /\ errors = Cardinality(all)
                /\ c = <<>> => recent_errors = 0
                /\ recent_errors <= errors
                /\ recent_errors <= Cardinality({m \in all : m[3] - 1 > WindowCut(c)})
                /\ recent_errors >= Cardinality({m \in all : m[1] > WindowCut(c)})
                /\ Len(c) <= RecentWindow => recent_errors = errors

\* a text longer than the window, with an occurrence before the window, one
\* across its start and one inside it
C14_Witness ==
    /\ phase = "counted"
    /\ 0 < recent_errors /\ recent_errors < errors
    /\ \A c \in {EventSample(sample)} :
           /\ Len(c) > RecentWindow
           /\ \E m \in ErrorSpans(c) : m[1] <= WindowCut(c) /\ m[3] - 1 > WindowCut(c)

=============================================================================
